---- MODULE Spec2Model ----
(***************************************************************************)
(* Model of the text extraction pass of rapid_doc (src/src/main.rs).       *)
(*                                                                         *)
(* main loads a document and, for every page, decodes the page's content   *)
(* stream into a sequence of operations and hands it to                    *)
(* process_content_stream, which walks the operations once, keeps the      *)
(* current text position and font size, and pushes one TextItem per        *)
(* text-showing operation.                                                 *)
(*                                                                         *)
(* Abstractions:                                                           *)
(*  - f32 values are modelled by small integers (Real(5) stands for 5.0);  *)
(*    on these values f32 addition is exact.  NaN, infinities and rounding *)
(*    are outside the model.                                               *)
(*  - a String (the Rust type) is the sequence of its Unicode code points; *)
(*    a byte string is a sequence of numbers in 0..255.                    *)
(*  - the document has MaxPages pages and every page refers to the same    *)
(*    content stream, so that successive calls of process_content_stream   *)
(*    can be compared.                                                     *)
(***************************************************************************)
EXTENDS Integers, Sequences, FiniteSets, TLC

VARIABLES
    operations,         \* content.operations of the page(s), fixed input
    integer_coerces,    \* whether lopdf's Object::as_f32 accepts Integer
    pc,                 \* "main" | "loop" | "exit"
    page_num,           \* page being processed by main's loop (1-based)
    idx,                \* number of operations the for loop has consumed
    current_x,
    current_y,
    current_font_size,
    extracted_items,
    prev,               \* history: the locals before the last consumed operation
    consumed,           \* history: indices of the operations consumed by this pass
    text_items          \* history: what each call returned to main, in call order

vars == <<operations, integer_coerces, pc, page_num, idx, current_x, current_y,
          current_font_size, extracted_items, prev, consumed, text_items>>

input == <<operations, integer_coerces>>

\* ------------------------------------------------------------------------
\* Bounds of the model
\* ------------------------------------------------------------------------
MaxOps == 3

MaxPages == 2

\* ------------------------------------------------------------------------
\* lopdf::Object, reduced to the variants and payloads the pass looks at
\* ------------------------------------------------------------------------
Object(kind, num, bytes, arr) == [kind |-> kind, num |-> num, bytes |-> bytes, arr |-> arr]

Null == Object("Null", 0, <<>>, <<>>)

Integer(n) == Object("Integer", n, <<>>, <<>>)

Real(n) == Object("Real", n, <<>>, <<>>)

Name(bytes) == Object("Name", 0, bytes, <<>>)

String(bytes) == Object("String", 0, bytes, <<>>)

Array(arr) == Object("Array", 0, <<>>, arr)

Operation(operator, operands) == [operator |-> operator, operands |-> operands]

\* operands[i] with Rust's 0-based index
At(operands, i) == operands[i + 1]

\* Object::as_f32: Ok(value) for a Real, and for an Integer in the lopdf
\* versions that coerce integers; Err for every other variant.
as_f32(obj) ==
    IF obj.kind = "Real" \/ (obj.kind = "Integer" /\ integer_coerces)
    THEN [ok |-> TRUE, val |-> obj.num]
    ELSE [ok |-> FALSE, val |-> 0]

\* ------------------------------------------------------------------------
\* UTF-8 decoding (String::from_utf8 and String::from_utf8_lossy)
\* ------------------------------------------------------------------------
REPLACEMENT_CHARACTER == 65533

IsCont(b) == b >= 128 /\ b <= 191

\* width of the UTF-8 sequence a first byte announces, 0 for an invalid first byte
Utf8CharWidth(b) ==
    IF b <= 127 THEN 1
    ELSE IF b >= 194 /\ b <= 223 THEN 2
    ELSE IF b >= 224 /\ b <= 239 THEN 3
    ELSE IF b >= 240 /\ b <= 244 THEN 4
    ELSE 0

\* the range allowed for the second byte after first byte b
SecondOk(b, c) ==
    IF b = 224 THEN c >= 160 /\ c <= 191
    ELSE IF b = 237 THEN c >= 128 /\ c <= 159
    ELSE IF b = 240 THEN c >= 144 /\ c <= 191
    ELSE IF b = 244 THEN c >= 128 /\ c <= 143
    ELSE IsCont(c)

\* Decodes the chunk that starts at bytes[i]: a valid sequence gives
\* [valid |-> TRUE, len, cp]; otherwise len is the length of the maximal
\* invalid prefix (the bytes one replacement character stands for).
NextChunk(bytes, i) ==
    LET n == Len(bytes)
        b == bytes[i]
        w == Utf8CharWidth(b)
        bad(k) == [valid |-> FALSE, len |-> k, cp |-> REPLACEMENT_CHARACTER]
    IN  IF w = 0 THEN bad(1)
        ELSE IF w = 1 THEN [valid |-> TRUE, len |-> 1, cp |-> b]
        ELSE IF i + 1 > n \/ ~SecondOk(b, bytes[i + 1]) THEN bad(1)
        ELSE IF w = 2
             THEN [valid |-> TRUE, len |-> 2,
                   cp |-> (b - 192) * 64 + (bytes[i + 1] - 128)]
        ELSE IF i + 2 > n \/ ~IsCont(bytes[i + 2]) THEN bad(2)
        ELSE IF w = 3
             THEN [valid |-> TRUE, len |-> 3,
                   cp |-> (b - 224) * 4096 + (bytes[i + 1] - 128) * 64
                          + (bytes[i + 2] - 128)]
        ELSE IF i + 3 > n \/ ~IsCont(bytes[i + 3]) THEN bad(3)
        ELSE [valid |-> TRUE, len |-> 4,
              cp |-> (b - 240) * 262144 + (bytes[i + 1] - 128) * 4096
                     + (bytes[i + 2] - 128) * 64 + (bytes[i + 3] - 128)]

RECURSIVE DecodeFrom(_, _)
\* [ok, text]: text has one replacement character per invalid chunk,
\* ok tells whether every chunk was valid
DecodeFrom(bytes, i) ==
    IF i > Len(bytes) THEN [ok |-> TRUE, text |-> <<>>]
    ELSE LET c == NextChunk(bytes, i)
             rest == DecodeFrom(bytes, i + c.len)
         IN  [ok |-> c.valid /\ rest.ok, text |-> <<c.cp>> \o rest.text]

\* String::from_utf8_lossy(bytes)
from_utf8_lossy(bytes) == DecodeFrom(bytes, 1).text

\* the strict decode replaced by the lossy one (the line commented out at 142)
from_utf8_unwrap_or_default_Lossy(bytes) == from_utf8_lossy(bytes)

\* String::from_utf8(bytes).unwrap_or_default()
from_utf8_unwrap_or_default(bytes) ==
    LET r == DecodeFrom(bytes, 1) IN IF r.ok THEN r.text ELSE <<>>

\* ------------------------------------------------------------------------
\* process_content_stream: locals and match arms
\* ------------------------------------------------------------------------
TextItem(text, x, y, font_size) == [text |-> text, x |-> x, y |-> y, font_size |-> font_size]

Locals == [extracted_items |-> extracted_items,
           current_font_size |-> current_font_size,
           current_x |-> current_x,
           current_y |-> current_y]

\* FreshLocals if the position and the font size were kept in variables that
\* outlive the call instead of being re-initialised by the prologue
FreshLocals_Stale == [extracted_items |-> <<>>,
                      current_font_size |-> current_font_size,
                      current_x |-> current_x,
                      current_y |-> current_y]

\* the locals as the function's prologue sets them
FreshLocals == [extracted_items |-> <<>>,
                current_font_size |-> 0,
                current_x |-> 0,
                current_y |-> 0]

extract_text_from_object(obj) ==
    IF obj.kind = "String" THEN from_utf8_unwrap_or_default(obj.bytes) ELSE <<>>

\* ArmBT if it reset only x
ArmBT_OnlyX(s, operands) == [s EXCEPT !.current_x = 0]

\* ArmBT if beginning a text object also reset the font size
ArmBT_ResetsFont(s, operands) ==
    [s EXCEPT !.current_x = 0, !.current_y = 0, !.current_font_size = 0]

ArmBT(s, operands) == [s EXCEPT !.current_x = 0, !.current_y = 0]

\* ArmTf if the size were taken from the last operand, however many there are
ArmTf_LastOperand(s, operands) ==
    IF Len(operands) >= 1 /\ as_f32(operands[Len(operands)]).ok
    THEN [s EXCEPT !.current_font_size = as_f32(operands[Len(operands)]).val]
    ELSE s

\* ArmTf if a failed coercion fell back to 0.0 (unwrap_or_default)
ArmTf_DefaultZero(s, operands) ==
    IF Len(operands) >= 2
    THEN [s EXCEPT !.current_font_size =
              IF as_f32(At(operands, 1)).ok THEN as_f32(At(operands, 1)).val ELSE 0]
    ELSE s

ArmTf(s, operands) ==
    IF Len(operands) >= 2 /\ as_f32(At(operands, 1)).ok
    THEN [s EXCEPT !.current_font_size = as_f32(At(operands, 1)).val]
    ELSE s

\* ArmTd if each offset were coerced and added on its own
ArmTd_Independent(s, operands) ==
    IF Len(operands) >= 2
    THEN [s EXCEPT !.current_x =
              IF as_f32(At(operands, 0)).ok THEN @ + as_f32(At(operands, 0)).val ELSE @,
                   !.current_y =
              IF as_f32(At(operands, 1)).ok THEN @ + as_f32(At(operands, 1)).val ELSE @]
    ELSE s

\* ArmTd if it assigned the offsets instead of adding them
ArmTd_Absolute(s, operands) ==
    IF Len(operands) >= 2 /\ as_f32(At(operands, 0)).ok /\ as_f32(At(operands, 1)).ok
    THEN [s EXCEPT !.current_x = as_f32(At(operands, 0)).val,
                   !.current_y = as_f32(At(operands, 1)).val]
    ELSE s

ArmTd(s, operands) ==
    IF Len(operands) >= 2 /\ as_f32(At(operands, 0)).ok /\ as_f32(At(operands, 1)).ok
    THEN [s EXCEPT !.current_x = @ + as_f32(At(operands, 0)).val,
                   !.current_y = @ + as_f32(At(operands, 1)).val]
    ELSE s

\* ArmTm if the translation were added to the current position
ArmTm_Relative(s, operands) ==
    IF Len(operands) >= 6 /\ as_f32(At(operands, 4)).ok /\ as_f32(At(operands, 5)).ok
    THEN [s EXCEPT !.current_x = @ + as_f32(At(operands, 4)).val,
                   !.current_y = @ + as_f32(At(operands, 5)).val]
    ELSE s

ArmTm(s, operands) ==
    IF Len(operands) >= 6 /\ as_f32(At(operands, 4)).ok /\ as_f32(At(operands, 5)).ok
    THEN [s EXCEPT !.current_x = as_f32(At(operands, 4)).val,
                   !.current_y = as_f32(At(operands, 5)).val]
    ELSE s

\* ArmTj if showing text advanced x by the number of characters shown
ArmTj_Advance(s, operands) ==
    IF Len(operands) >= 1
    THEN [s EXCEPT !.extracted_items =
              Append(@, TextItem(extract_text_from_object(At(operands, 0)),
                                 s.current_x, s.current_y, s.current_font_size)),
                   !.current_x = @ + Len(extract_text_from_object(At(operands, 0)))]
    ELSE s

\* ArmTj if the item were inserted at the front (insert(0, ..) for push)
ArmTj_Prepend(s, operands) ==
    IF Len(operands) >= 1
    THEN [s EXCEPT !.extracted_items =
              <<TextItem(extract_text_from_object(At(operands, 0)),
                         s.current_x, s.current_y, s.current_font_size)>> \o @]
    ELSE s

ArmTj(s, operands) ==
    IF Len(operands) >= 1
    THEN [s EXCEPT !.extracted_items =
              Append(@, TextItem(extract_text_from_object(At(operands, 0)),
                                 s.current_x, s.current_y, s.current_font_size))]
    ELSE s

RECURSIVE CombinedText(_, _)
\* combined_text after the loop over arr has gone through items k..end
CombinedText(arr, k) ==
    IF k > Len(arr) THEN <<>>
    ELSE (IF arr[k].kind = "String" THEN from_utf8_lossy(arr[k].bytes) ELSE <<>>)
         \o CombinedText(arr, k + 1)

RECURSIVE TextUntilOther(_, _)
TextUntilOther(arr, k) ==
    IF k > Len(arr) \/ arr[k].kind # "String" THEN <<>>
    ELSE from_utf8_lossy(arr[k].bytes) \o TextUntilOther(arr, k + 1)

\* ArmTJ if the loop over the array ended at the first element that is no string
ArmTJ_StopAtOther(s, operands) ==
    IF Len(operands) >= 1 /\ At(operands, 0).kind = "Array"
    THEN [s EXCEPT !.extracted_items =
              Append(@, TextItem(TextUntilOther(At(operands, 0).arr, 1),
                                 s.current_x, s.current_y, s.current_font_size))]
    ELSE s

RECURSIVE SpacedText(_, _)
SpacedText(arr, k) ==
    IF k > Len(arr) THEN <<>>
    ELSE (IF arr[k].kind = "String" THEN from_utf8_lossy(arr[k].bytes)
          ELSE IF arr[k].kind \in {"Integer", "Real"} THEN <<32>>
          ELSE <<>>)
         \o SpacedText(arr, k + 1)

\* ArmTJ if a numeric adjustment were turned into a space
ArmTJ_KerningSpace(s, operands) ==
    IF Len(operands) >= 1 /\ At(operands, 0).kind = "Array"
    THEN [s EXCEPT !.extracted_items =
              Append(@, TextItem(SpacedText(At(operands, 0).arr, 1),
                                 s.current_x, s.current_y, s.current_font_size))]
    ELSE s

RECURSIVE PushEach(_, _, _)
PushEach(s, arr, k) ==
    IF k > Len(arr) THEN s
    ELSE PushEach(
           IF arr[k].kind = "String"
           THEN [s EXCEPT !.extracted_items =
                    Append(@, TextItem(from_utf8_lossy(arr[k].bytes),
                                       s.current_x, s.current_y, s.current_font_size))]
           ELSE s,
           arr, k + 1)

\* ArmTJ if the push stood inside the loop over the array: one item per string
ArmTJ_PerElement(s, operands) ==
    IF Len(operands) >= 1 /\ At(operands, 0).kind = "Array"
    THEN PushEach(s, At(operands, 0).arr, 1)
    ELSE s

ArmTJ(s, operands) ==
    IF Len(operands) >= 1 /\ At(operands, 0).kind = "Array"
    THEN [s EXCEPT !.extracted_items =
              Append(@, TextItem(CombinedText(At(operands, 0).arr, 1),
                                 s.current_x, s.current_y, s.current_font_size))]
    ELSE s

\* ArmOther if the end of a text object (ET) dropped the font size
ArmOther_ClearsFont(s, operands) == [s EXCEPT !.current_font_size = 0]

\* ArmOther if an operator outside the match (ET, say) reset the position
ArmOther_Reset(s, operands) == [s EXCEPT !.current_x = 0, !.current_y = 0]

ArmOther(s, operands) == s

Recognized == {"BT", "Tf", "Td", "TD", "Tm", "Tj", "TJ"}

\* the match on operator.as_str()
Dispatch(s, operation) ==
    CASE operation.operator = "BT" -> ArmBT(s, operation.operands)
      [] operation.operator = "Tf" -> ArmTf(s, operation.operands)
      [] operation.operator \in {"Td", "TD"} -> ArmTd(s, operation.operands)
      [] operation.operator = "Tm" -> ArmTm(s, operation.operands)
      [] operation.operator = "Tj" -> ArmTj(s, operation.operands)
      [] operation.operator = "TJ" -> ArmTJ(s, operation.operands)
      [] OTHER -> ArmOther(s, operation.operands)

RECURSIVE Fold(_, _, _)
\* the locals after the loop body has run on ops[k..], starting from s
Fold(s, ops, k) ==
    IF k > Len(ops) THEN s ELSE Fold(Dispatch(s, ops[k]), ops, k + 1)

\* process_content_stream as a function of its argument
process_content_stream(ops) == Fold(FreshLocals, ops, 1).extracted_items

\* ------------------------------------------------------------------------
\* Inputs: the operations a content stream is made of
\* ------------------------------------------------------------------------
F1 == Name(<<70, 49>>)

H == String(<<72>>)

\* one operation per match arm
BaseOps ==
    { Operation("BT", <<>>),
      Operation("Tf", <<F1, Real(12)>>),
      Operation("Td", <<Real(5), Real(5)>>),
      Operation("Tm", <<Real(2), Real(0), Real(0), Real(2), Real(10), Real(20)>>),
      Operation("Tj", <<H>>),
      Operation("TJ", <<Array(<<H, Integer(-100), String(<<101>>)>>)>>),
      Operation("ET", <<>>) }

\* show operations that emit nothing, and a byte string that is not UTF-8
CoreOps ==
    BaseOps \cup
    { Operation("Tj", <<>>),
      Operation("TJ", <<H>>),
      Operation("Tj", <<String(<<72, 255>>)>>) }

\* operators the match does not name, with operands a named one would act on
UnknownOps ==
    BaseOps \cup
    { Operation("bt", <<>>),
      Operation("tj", <<H>>),
      Operation("td", <<Real(5), Real(5)>>),
      Operation("Tz", <<F1, Real(7), Array(<<H>>)>>) }

\* BT with operands, both move operators, integer and ill-typed offsets
MoveOps ==
    BaseOps \cup
    { Operation("BT", <<Real(7), Real(7)>>),
      Operation("TD", <<Real(5), Real(5)>>),
      Operation("Td", <<Integer(1), Real(-2)>>),
      Operation("TD", <<Integer(1), Real(-2)>>),
      Operation("Td", <<F1, Real(1)>>) }

\* Tm with operands 0..3 of any kind, with an ill-typed or a missing translation
TmOps ==
    BaseOps \cup
    { Operation("Tm", <<F1, Null, H, Array(<<>>), Integer(3), Real(4)>>),
      Operation("Tm", <<Real(1), Real(0), Real(0), Real(1), F1, Real(20)>>),
      Operation("Tm", <<Real(1), Real(0), Real(0), Real(1), Real(9)>>),
      Operation("TJ", <<Array(<<>>)>>) }

\* Tf with an integer size, with ill-typed operands, with one operand
TfOps ==
    BaseOps \cup
    { Operation("Tf", <<F1, Integer(9)>>),
      Operation("Tf", <<F1, H>>),
      Operation("Tf", <<H, String(<<110>>)>>),
      Operation("Tf", <<Real(7)>>) }

\* TJ arrays: empty, numbers only, a character split over two strings,
\* names and nested arrays among the strings
TJOps ==
    BaseOps \cup
    { Operation("TJ", <<Array(<<>>)>>),
      Operation("TJ", <<Array(<<Integer(-100), Real(3)>>)>>),
      Operation("TJ", <<Array(<<String(<<195>>), String(<<169>>)>>)>>),
      Operation("TJ", <<Array(<<String(<<195, 169>>), F1, Array(<<H>>), H>>), Real(1)>>) }

\* Tj whose first operand is no byte string
TjKindOps ==
    BaseOps \cup
    { Operation("Tj", <<Integer(3)>>),
      Operation("Tj", <<F1>>),
      Operation("Tj", <<Array(<<H>>)>>),
      Operation("Tj", <<Null, H>>) }

\* byte strings that are and are not UTF-8, shown by Tj and inside a TJ array
DecodeOps ==
    BaseOps \cup
    { Operation("Tj", <<String(<<72, 255>>)>>),
      Operation("TJ", <<Array(<<String(<<72, 255>>)>>)>>),
      Operation("Tj", <<String(<<195, 169>>)>>),
      Operation("TJ", <<Array(<<String(<<195, 169>>)>>)>>),
      Operation("TJ", <<Array(<<String(<<226, 130>>), Integer(-5), String(<<172, 72>>)>>)>>) }

\* moves and matrices of which one of the two coordinates is no number
HalfOps ==
    BaseOps \cup
    { Operation("Td", <<F1, Real(1)>>),
      Operation("TD", <<Real(1), F1>>),
      Operation("Td", <<Integer(1), Real(-2)>>),
      Operation("Tm", <<Real(1), Real(0), Real(0), Real(1), F1, Real(20)>>),
      Operation("Tm", <<Real(1), Real(0), Real(0), Real(1), Real(9), Null>>) }

\* operations with fewer operands than their arm asks for, well-typed otherwise
ArityOps ==
    BaseOps \cup
    { Operation("Tf", <<Real(7)>>),
      Operation("Td", <<Real(1)>>),
      Operation("Tm", <<Real(1), Real(0), Real(0), Real(1), Real(9)>>),
      Operation("Tj", <<>>),
      Operation("TJ", <<>>) }

\* TJ whose first operand is no array, and arrays with elements of other kinds
TJKindOps ==
    BaseOps \cup
    { Operation("TJ", <<H>>),
      Operation("TJ", <<Integer(3)>>),
      Operation("TJ", <<F1, Array(<<H>>)>>),
      Operation("TJ", <<Array(<<String(<<195, 169>>), F1, Array(<<H>>), H>>)>>),
      Operation("TJ", <<Array(<<Null, H, Real(2), String(<<101>>)>>)>>) }

\* the operations of a text object and around it
ObjectOps ==
    BaseOps \cup { Operation("TD", <<Real(1), Real(-2)>>) }

SeqsUpTo(S, n) == UNION {[1..k -> S] : k \in 0..n}

\* content streams over ObjectOps, as they come or opened by a BT
ObjectStreams ==
    SeqsUpTo(ObjectOps, MaxOps)
       \cup {<<Operation("BT", <<>>)>> \o s : s \in SeqsUpTo(ObjectOps, MaxOps)}

\* ------------------------------------------------------------------------
\* The state machine: main's loop over the pages and the pass over a page
\* ------------------------------------------------------------------------
InitWith(Alphabet) ==
    /\ operations \in SeqsUpTo(Alphabet, MaxOps)
    /\ integer_coerces \in BOOLEAN
    /\ pc = "main"
    /\ page_num = 1
    /\ idx = 0
    /\ current_x = 0
    /\ current_y = 0
    /\ current_font_size = 0
    /\ extracted_items = <<>>
    /\ prev = FreshLocals
    /\ consumed = <<>>
    /\ text_items = <<>>

Init == InitWith(CoreOps)

Commit(s) ==
    /\ extracted_items' = s.extracted_items
    /\ current_font_size' = s.current_font_size
    /\ current_x' = s.current_x
    /\ current_y' = s.current_y

\* main calls process_content_stream for the current page
Call ==
    /\ pc = "main"
    /\ page_num <= MaxPages
    /\ Commit(FreshLocals)
    /\ prev' = FreshLocals
    /\ idx' = 0
    /\ consumed' = <<>>
    /\ pc' = "loop"
    /\ UNCHANGED <<input, page_num, text_items>>

InLoop == pc = "loop" /\ idx < Len(operations)

operation == operations[idx + 1]

\* one iteration of the for loop, whose body leaves the locals as s
Iterate(s) ==
    /\ Commit(s)
    /\ prev' = Locals
    /\ idx' = idx + 1
    /\ consumed' = Append(consumed, idx + 1)
    /\ UNCHANGED <<input, pc, page_num, text_items>>

BT == InLoop /\ operation.operator = "BT" /\ Iterate(ArmBT(Locals, operation.operands))

Tf == InLoop /\ operation.operator = "Tf" /\ Iterate(ArmTf(Locals, operation.operands))

Td == InLoop /\ operation.operator \in {"Td", "TD"} /\ Iterate(ArmTd(Locals, operation.operands))

Tm == InLoop /\ operation.operator = "Tm" /\ Iterate(ArmTm(Locals, operation.operands))

\* Tj if the strict decode were unwrapped: invalid UTF-8 panics and the pass is
\* abandoned
Tj_Unwrap ==
    /\ InLoop
    /\ operation.operator = "Tj"
    /\ IF /\ Len(operation.operands) >= 1
          /\ At(operation.operands, 0).kind = "String"
          /\ ~DecodeFrom(At(operation.operands, 0).bytes, 1).ok
       THEN /\ pc' = "panicked"
            /\ UNCHANGED <<input, page_num, idx, current_x, current_y, current_font_size,
                           extracted_items, prev, consumed, text_items>>
       ELSE Iterate(ArmTj(Locals, operation.operands))

Tj == InLoop /\ operation.operator = "Tj" /\ Iterate(ArmTj(Locals, operation.operands))

TJ == InLoop /\ operation.operator = "TJ" /\ Iterate(ArmTJ(Locals, operation.operands))

Other == InLoop /\ operation.operator \notin Recognized /\ Iterate(ArmOther(Locals, operation.operands))

\* the loop is over: extracted_items is returned and main goes to the next page
Return ==
    /\ pc = "loop"
    /\ idx = Len(operations)
    /\ text_items' = Append(text_items, extracted_items)
    /\ page_num' = page_num + 1
    /\ pc' = "main"
    /\ UNCHANGED <<input, idx, current_x, current_y, current_font_size,
                   extracted_items, prev, consumed>>

\* no page is left: main returns Ok(())
Exit ==
    /\ pc = "main"
    /\ page_num > MaxPages
    /\ pc' = "exit"
    /\ UNCHANGED <<input, page_num, idx, current_x, current_y, current_font_size,
                   extracted_items, prev, consumed, text_items>>

Next == Call \/ BT \/ Tf \/ Td \/ Tm \/ Tj \/ TJ \/ Other \/ Return \/ Exit

Spec == Init /\ [][Next]_vars

InitUnknown == InitWith(UnknownOps)

SpecUnknown == InitUnknown /\ [][Next]_vars

InitMove == InitWith(MoveOps)

SpecMove == InitMove /\ [][Next]_vars

InitTm == InitWith(TmOps)

SpecTm == InitTm /\ [][Next]_vars

InitTf == InitWith(TfOps)

SpecTf == InitTf /\ [][Next]_vars

InitTJ == InitWith(TJOps)

SpecTJ == InitTJ /\ [][Next]_vars

InitTjKind == InitWith(TjKindOps)

SpecTjKind == InitTjKind /\ [][Next]_vars

InitDecode == InitWith(DecodeOps)

SpecDecode == InitDecode /\ [][Next]_vars

InitHalf == InitWith(HalfOps)

SpecHalf == InitHalf /\ [][Next]_vars

InitArity == InitWith(ArityOps)

SpecArity == InitArity /\ [][Next]_vars

InitTJKind == InitWith(TJKindOps)

SpecTJKind == InitTJKind /\ [][Next]_vars

InitObject ==
    /\ operations \in ObjectStreams
    /\ integer_coerces \in BOOLEAN
    /\ pc = "main"
    /\ page_num = 1
    /\ idx = 0
    /\ current_x = 0
    /\ current_y = 0
    /\ current_font_size = 0
    /\ extracted_items = <<>>
    /\ prev = FreshLocals
    /\ consumed = <<>>
    /\ text_items = <<>>

SpecObject == InitObject /\ [][Next]_vars

\* the scheduler is the thread itself: a step that can be taken is taken
LiveSpec == Spec /\ WF_vars(Next)

\* ------------------------------------------------------------------------
\* Vocabulary of the properties
\* ------------------------------------------------------------------------
IsShow(op) == op.operator \in {"Tj", "TJ"}

\* the show operations among the first n operations
ShowCount(n) == Cardinality({k \in 1..n : IsShow(operations[k])})

\* the operation the loop has just consumed (for idx >= 1)
last_op == operations[idx]

Indices(n) == [i \in 1..n |-> i]

\* the operator names of the text vocabulary, matched exactly
Vocabulary == {"BT", "Tf", "Td", "TD", "Tm", "Tj", "TJ"}

\* an operand is numeric when it coerces to a number
Numeric(obj) == as_f32(obj).ok

Value(obj) == as_f32(obj).val

WellFormedTf(op) ==
    op.operator = "Tf" /\ Len(op.operands) >= 2 /\ Numeric(At(op.operands, 1))

WellFormedMove(op) ==
    /\ op.operator \in {"Td", "TD"}
    /\ Len(op.operands) >= 2
    /\ Numeric(At(op.operands, 0))
    /\ Numeric(At(op.operands, 1))

WellFormedTm(op) ==
    /\ op.operator = "Tm"
    /\ Len(op.operands) >= 6
    /\ Numeric(At(op.operands, 4))
    /\ Numeric(At(op.operands, 5))

\* a show operation that has what it needs to emit
Emits(op) ==
    \/ op.operator = "Tj" /\ Len(op.operands) >= 1
    \/ op.operator = "TJ" /\ Len(op.operands) >= 1 /\ At(op.operands, 0).kind = "Array"

\* the operation just consumed has pushed exactly one item
Emitted ==
    /\ pc = "loop"
    /\ idx >= 1
    /\ Len(extracted_items) = Len(prev.extracted_items) + 1

LastItem == extracted_items[Len(extracted_items)]

Prefix(n) == SubSeq(operations, 1, n)

Without(ops, k) == SubSeq(ops, 1, k - 1) \o SubSeq(ops, k + 1, Len(ops))

SetMax(S) == CHOOSE m \in S : \A k \in S : k <= m

\* the operation that emitted the i-th item: the i-th emitting one
EmitIndex(i) ==
    CHOOSE k \in 1..idx :
        /\ Emits(operations[k])
        /\ Cardinality({j \in 1..k : Emits(operations[j])}) = i

\* ------------------------------------------------------------------------
\* C1: at every point of the pass the number of TextItems emitted so far is
\* at most the number of Tj and TJ operations consumed so far, an operation
\* other than Tj/TJ emits nothing, and every returned sequence is no longer
\* than the number of Tj and TJ operations of the input.
\* ------------------------------------------------------------------------
C1_EmittedAtMostShows ==
    /\ pc = "loop" => Len(extracted_items) <= ShowCount(idx)
    /\ (pc = "loop" /\ idx >= 1 /\ ~IsShow(last_op))
          => Len(extracted_items) = Len(prev.extracted_items)
    /\ \A i \in DOMAIN text_items : Len(text_items[i]) <= ShowCount(Len(operations))

\* a finished pass that emitted, over an input with a show operation that
\* emitted nothing and an operation that is no show operation
C1_Witness ==
    /\ pc = "loop"
    /\ idx = Len(operations)
    /\ Len(extracted_items) >= 1
    /\ Len(extracted_items) < ShowCount(idx)
    /\ \E k \in 1..idx : ~IsShow(operations[k])

\* ------------------------------------------------------------------------
\* C2: the pass consumes the operations one by one in input order, never
\* one twice, and every pass that has started reaches its end having
\* consumed every operation, whatever the operators and operands.
\* ------------------------------------------------------------------------
C2_PassCompletes ==
    /\ [](pc = "loop" => consumed = Indices(idx))
    /\ (pc = "loop") ~> (pc = "main" /\ consumed = Indices(Len(operations)))

\* a pass has returned after consuming three or more operations, among them
\* a show operation without operands and a byte string that is not UTF-8
C2_Witness ==
    /\ pc = "main"
    /\ Len(operations) >= 3
    /\ consumed = Indices(Len(operations))
    /\ \E k \in 1..Len(operations) : operations[k] = Operation("Tj", <<>>)
    /\ \E k \in 1..Len(operations) : operations[k] = Operation("Tj", <<String(<<72, 255>>)>>)

\* ------------------------------------------------------------------------
\* C3: every call starts from x = 0, y = 0, font_size = 0 and no item, and
\* two calls on the same operations return the same sequence of TextItems.
\* ------------------------------------------------------------------------
C3_RunsAgree ==
    /\ (pc = "loop" /\ idx = 0)
          => (current_x = 0 /\ current_y = 0 /\ current_font_size = 0
              /\ extracted_items = <<>>)
    /\ \A i, j \in DOMAIN text_items : text_items[i] = text_items[j]

\* two calls have returned; the first ended away from the origin with a
\* font size set, after emitting an item at the origin with font size 0
C3_Witness ==
    /\ Len(text_items) >= 2
    /\ Len(text_items[1]) >= 1
    /\ text_items[1][1].x = 0
    /\ text_items[1][1].font_size = 0
    /\ current_x # 0
    /\ current_font_size # 0

\* ------------------------------------------------------------------------
\* C4: an operation whose operator is not one of BT, Tf, Td, TD, Tm, Tj, TJ
\* (exact match) changes none of x, y, font_size and the output, whatever
\* its operands, and the pass ends, at every point, as it does on the
\* operations without that operation.
\* ------------------------------------------------------------------------
C4_UnknownOperatorIgnored ==
    /\ (pc = "loop" /\ idx >= 1 /\ last_op.operator \notin Vocabulary) => Locals = prev
    /\ pc = "loop" =>
          \A k \in 1..idx :
              operations[k].operator \notin Vocabulary
                 => Locals = Fold(FreshLocals, Without(Prefix(idx), k), 1)
    /\ \A i \in DOMAIN text_items : \A k \in 1..Len(operations) :
          operations[k].operator \notin Vocabulary
             => text_items[i] = process_content_stream(Without(operations, k))

\* a pass has ended away from the origin with an item emitted, over an input
\* whose second operation is a lower-case td or tj with operands
C4_Witness ==
    /\ pc = "loop"
    /\ idx = Len(operations)
    /\ idx >= 3
    /\ operations[2].operator \in {"td", "tj"}
    /\ current_x # 0
    /\ extracted_items # <<>>

\* ------------------------------------------------------------------------
\* C5: right after a BT, whatever its operands and the state before,
\* x = 0 and y = 0; a Tj or TJ that emits after a BT, with no successful
\* Td/TD/Tm between the two, emits at x = 0, y = 0.
\* ------------------------------------------------------------------------
C5_BTResetsPosition ==
    (pc = "loop" /\ idx >= 1) =>
        /\ last_op.operator = "BT" => (current_x = 0 /\ current_y = 0)
        /\ ( /\ IsShow(last_op)
             /\ Emitted
             /\ \E j \in 1..(idx - 1) :
                   /\ operations[j].operator = "BT"
                   /\ \A k \in (j + 1)..(idx - 1) :
                         ~(WellFormedMove(operations[k]) \/ WellFormedTm(operations[k])) )
           => (LastItem.x = 0 /\ LastItem.y = 0)

\* a successful move, then a BT with operands, then a show operation that emits
C5_Witness ==
    /\ pc = "loop"
    /\ idx = 3
    /\ WellFormedMove(operations[1])
    /\ operations[2] = Operation("BT", <<Real(7), Real(7)>>)
    /\ prev.current_x = 0
    /\ IsShow(last_op)
    /\ Emitted

\* ------------------------------------------------------------------------
\* C6: font_size is what the latest Tf with at least 2 operands and a
\* numeric operand[1] set, or 0 if there is none: any other operation, BT
\* included, leaves it unchanged, and every emitted item carries the size of
\* the latest such Tf before the operation that emitted it.
\* ------------------------------------------------------------------------
LastTfSize(n) ==
    LET S == {k \in 1..n : WellFormedTf(operations[k])}
    IN  IF S = {} THEN 0 ELSE Value(At(operations[SetMax(S)].operands, 1))

C6_FontSizeOnlyByTf ==
    pc = "loop" =>
        /\ current_font_size = LastTfSize(idx)
        /\ (idx >= 1 /\ ~WellFormedTf(last_op))
              => current_font_size = prev.current_font_size
        /\ \A i \in DOMAIN extracted_items :
              extracted_items[i].font_size = LastTfSize(EmitIndex(i))

\* a well-formed Tf, then a BT, then a show operation that emits
C6_Witness ==
    /\ pc = "loop"
    /\ idx = 3
    /\ WellFormedTf(operations[1])
    /\ operations[2].operator = "BT"
    /\ Emitted
    /\ LastItem.font_size # 0

\* ------------------------------------------------------------------------
\* C7: a Tm with at least 6 operands and numeric operand[4], operand[5]
\* sets x to operand[4] and y to operand[5], whatever x and y were and
\* whatever operands 0..3 are; a Tj/TJ right after it emits there.
\* ------------------------------------------------------------------------
C7_TmSetsTranslation ==
    (pc = "loop" /\ idx >= 1) =>
        /\ WellFormedTm(last_op)
              => /\ current_x = Value(At(last_op.operands, 4))
                 /\ current_y = Value(At(last_op.operands, 5))
        /\ (idx >= 2 /\ WellFormedTm(operations[idx - 1]) /\ IsShow(last_op) /\ Emitted)
              => /\ LastItem.x = Value(At(operations[idx - 1].operands, 4))
                 /\ LastItem.y = Value(At(operations[idx - 1].operands, 5))

\* a successful move, then a Tm whose operands 0..3 are no numbers, then a
\* show operation that emits
C7_Witness ==
    /\ pc = "loop"
    /\ idx = 3
    /\ WellFormedMove(operations[1])
    /\ WellFormedTm(operations[2])
    /\ ~Numeric(At(operations[2].operands, 0))
    /\ prev.current_x # 0
    /\ IsShow(last_op)
    /\ Emitted

\* ------------------------------------------------------------------------
\* C8: after the latest BT or successful Tm (or from the start), a run of
\* well-formed Td/TD operations leaves the position at the base plus the
\* sum of their offsets; and writing TD for a Td, or Td for a TD, anywhere
\* changes neither the state nor the output.
\* ------------------------------------------------------------------------
BaseIndex(n) ==
    LET S == {k \in 1..n : operations[k].operator = "BT" \/ WellFormedTm(operations[k])}
    IN  IF S = {} THEN 0 ELSE SetMax(S)

\* the position the base operation fixes; c = 0 for x, 1 for y
BasePos(j, c) ==
    IF j = 0 \/ operations[j].operator = "BT" THEN 0
    ELSE Value(At(operations[j].operands, 4 + c))

RECURSIVE SumOffsets(_, _, _)
\* the sum of operand[c] over operations j+1..n
SumOffsets(j, n, c) ==
    IF n <= j THEN 0
    ELSE SumOffsets(j, n - 1, c) + Value(At(operations[n].operands, c))

SwapMove(op) ==
    IF op.operator = "Td" THEN [op EXCEPT !.operator = "TD"]
    ELSE IF op.operator = "TD" THEN [op EXCEPT !.operator = "Td"]
    ELSE op

C8_MovesAddUp ==
    pc = "loop" =>
        /\ LET j == BaseIndex(idx)
           IN  (\A k \in (j + 1)..idx : WellFormedMove(operations[k]))
                  => /\ current_x = BasePos(j, 0) + SumOffsets(j, idx, 0)
                     /\ current_y = BasePos(j, 1) + SumOffsets(j, idx, 1)
        /\ \A k \in 1..idx :
              Locals = Fold(FreshLocals, [Prefix(idx) EXCEPT ![k] = SwapMove(@)], 1)

\* a Tm that fixes a base, then a Td and a TD with different offsets
C8_Witness ==
    /\ pc = "loop"
    /\ idx = 3
    /\ WellFormedTm(operations[1])
    /\ WellFormedMove(operations[2])
    /\ WellFormedMove(last_op)
    /\ operations[2].operator # last_op.operator
    /\ operations[2].operands # last_op.operands
    /\ current_x # current_y

\* ------------------------------------------------------------------------
\* C9: a TJ whose first operand is an array emits exactly one item,
\* whatever the array holds; its text is the decoded byte strings of the
\* array, one after the other in array order, and nothing for the numbers.
\* ------------------------------------------------------------------------
RECURSIVE DecodedStrings(_)
DecodedStrings(arr) ==
    IF arr = <<>> THEN <<>>
    ELSE LET e == Head(arr)
         IN  IF e.kind = "String"
             THEN from_utf8_lossy(e.bytes) \o DecodedStrings(Tail(arr))
             ELSE DecodedStrings(Tail(arr))

C9_TJEmitsOneItem ==
    ( /\ pc = "loop"
      /\ idx >= 1
      /\ last_op.operator = "TJ"
      /\ Len(last_op.operands) >= 1
      /\ At(last_op.operands, 0).kind = "Array" )
    => /\ Len(extracted_items) = Len(prev.extracted_items) + 1
       /\ SubSeq(extracted_items, 1, Len(prev.extracted_items)) = prev.extracted_items
       /\ LastItem.text = DecodedStrings(At(last_op.operands, 0).arr)

\* a TJ whose array holds only numbers has emitted an item with the empty
\* text, and the next TJ, with two strings and a number between them, one item
C9_Witness ==
    /\ pc = "loop"
    /\ idx >= 2
    /\ operations[idx - 1] = Operation("TJ", <<Array(<<Integer(-100), Real(3)>>)>>)
    /\ last_op = Operation("TJ", <<Array(<<H, Integer(-100), String(<<101>>)>>)>>)
    /\ Len(extracted_items) = Len(prev.extracted_items) + 1
    /\ Len(extracted_items) >= 2
    /\ extracted_items[Len(extracted_items) - 1].text = <<>>
    /\ LastItem.text = <<72, 101>>

\* ------------------------------------------------------------------------
\* C10: a Tf with at least 2 operands whose operand[1] is not numeric does
\* not stop the pass and leaves font_size, x, y and the output unchanged;
\* a Tj that emits after it, with no well-formed Tf before that Tj, emits
\* an item with font_size = 0.
\* ------------------------------------------------------------------------
MalformedTf(op) ==
    op.operator = "Tf" /\ Len(op.operands) >= 2 /\ ~Numeric(At(op.operands, 1))

C10_MalformedTfSkipped ==
    (pc = "loop" /\ idx >= 1) =>
        /\ MalformedTf(last_op) => (Locals = prev /\ consumed = Indices(idx))
        /\ ( /\ last_op.operator = "Tj"
             /\ Emitted
             /\ \E j \in 1..(idx - 1) : MalformedTf(operations[j])
             /\ \A j \in 1..(idx - 1) : ~WellFormedTf(operations[j]) )
           => LastItem.font_size = 0

\* a well-formed Tf and a move, then a Tf whose two operands are strings
C10_Witness ==
    /\ pc = "loop"
    /\ idx = 3
    /\ last_op = Operation("Tf", <<H, String(<<110>>)>>)
    /\ current_font_size # 0
    /\ current_x # 0

\* Tf with two strings, then BT, then a Tj that has emitted
C10_WitnessTj ==
    /\ pc = "loop"
    /\ idx = 3
    /\ operations[1] = Operation("Tf", <<H, String(<<110>>)>>)
    /\ operations[2].operator = "BT"
    /\ last_op.operator = "Tj"
    /\ Emitted

\* ------------------------------------------------------------------------
\* C11: a Tj whose first operand is there but is no byte string emits no
\* item and leaves x, y and font_size unchanged, so that the pass goes on as
\* on the operations without it.
\* ------------------------------------------------------------------------
IllTypedTj(op) ==
    op.operator = "Tj" /\ Len(op.operands) >= 1 /\ At(op.operands, 0).kind # "String"

C11_IllTypedTjIsNoOp ==
    /\ (pc = "loop" /\ idx >= 1 /\ IllTypedTj(last_op)) => Locals = prev
    /\ \A i \in DOMAIN text_items : \A k \in 1..Len(operations) :
          IllTypedTj(operations[k])
             => text_items[i] = process_content_stream(Without(operations, k))

\* what the Tj arm does with such an operand: x, y and font_size stay, and
\* one item with the empty text is pushed at the current position
C11_IllTypedTjEmitsEmpty ==
    (pc = "loop" /\ idx >= 1 /\ IllTypedTj(last_op))
    => /\ current_x = prev.current_x
       /\ current_y = prev.current_y
       /\ current_font_size = prev.current_font_size
       /\ extracted_items =
             Append(prev.extracted_items,
                    TextItem(<<>>, prev.current_x, prev.current_y, prev.current_font_size))

\* ------------------------------------------------------------------------
\* C12: both show operators decode bytes the same way: for every byte
\* string b, UTF-8 or not, and every state, Tj(b) and TJ([b]) emit items
\* with the same text, x, y and font_size.
\* ------------------------------------------------------------------------
C12_SameDecodingPolicy ==
    (pc = "loop" /\ idx >= 1) =>
        /\ (last_op.operator = "Tj" /\ Len(last_op.operands) >= 1
               /\ At(last_op.operands, 0).kind = "String")
              => Locals = Dispatch(prev,
                              Operation("TJ", <<Array(<<At(last_op.operands, 0)>>)>>))
        /\ (last_op.operator = "TJ" /\ Len(last_op.operands) >= 1
               /\ At(last_op.operands, 0).kind = "Array"
               /\ Len(At(last_op.operands, 0).arr) = 1
               /\ At(last_op.operands, 0).arr[1].kind = "String")
              => Locals = Dispatch(prev,
                              Operation("Tj", <<At(last_op.operands, 0).arr[1]>>))

\* ------------------------------------------------------------------------
\* C18: Tj decodes strictly and TJ lossily: a Tj whose byte string is not
\* UTF-8 still emits exactly one item, with the empty text; a TJ array
\* element that is not UTF-8 gives its valid parts with a replacement
\* character for each invalid one; UTF-8 is emitted as decoded by both.
\* ------------------------------------------------------------------------
ValidUtf8(bytes) == DecodeFrom(bytes, 1).ok

HasReplacement(text) == \E i \in DOMAIN text : text[i] = REPLACEMENT_CHARACTER

C18_StrictTjLossyTJ ==
    (pc = "loop" /\ idx >= 1) =>
        /\ (last_op.operator = "Tj" /\ Len(last_op.operands) >= 1
               /\ At(last_op.operands, 0).kind = "String")
              => LET b == At(last_op.operands, 0).bytes
                 IN  /\ Len(extracted_items) = Len(prev.extracted_items) + 1
                     /\ LastItem.text = IF ValidUtf8(b) THEN DecodeFrom(b, 1).text ELSE <<>>
                     /\ ~HasReplacement(LastItem.text)
        /\ (last_op.operator = "TJ" /\ Len(last_op.operands) >= 1
               /\ At(last_op.operands, 0).kind = "Array")
              => LET arr == At(last_op.operands, 0).arr
                     strings == {k \in DOMAIN arr : arr[k].kind = "String"}
                 IN  /\ Len(extracted_items) = Len(prev.extracted_items) + 1
                     /\ LastItem.text = DecodedStrings(arr)
                     /\ HasReplacement(LastItem.text)
                           <=> \E k \in strings : ~ValidUtf8(arr[k].bytes)

\* the bytes 48 FF shown by Tj give the empty text, shown by TJ they give H
\* and a replacement character; the bytes C3 A9 shown by Tj give U+00E9
C18_Witness ==
    /\ pc = "loop"
    /\ idx = 3
    /\ operations[1] = Operation("Tj", <<String(<<72, 255>>)>>)
    /\ operations[2] = Operation("TJ", <<Array(<<String(<<72, 255>>)>>)>>)
    /\ operations[3] = Operation("Tj", <<String(<<195, 169>>)>>)
    /\ Len(extracted_items) = 3
    /\ extracted_items[1].text = <<>>
    /\ extracted_items[2].text = <<72, REPLACEMENT_CHARACTER>>
    /\ extracted_items[3].text = <<233>>

\* ------------------------------------------------------------------------
\* C13: the output only grows at its end: after every step the output
\* before the step is a prefix of the output, whatever the operation, and
\* the i-th item, of the output and of every returned sequence, is the one
\* the i-th emitting Tj/TJ operation of the input pushed.
\* ------------------------------------------------------------------------
IsPrefix(a, b) == Len(a) <= Len(b) /\ SubSeq(b, 1, Len(a)) = a

\* the item the k-th operation pushes in the state the operations before it lead to
ItemOf(k) ==
    LET s == Dispatch(Fold(FreshLocals, Prefix(k - 1), 1), operations[k])
    IN  s.extracted_items[Len(s.extracted_items)]

\* the i-th emitting operation of the input
EmitterOf(i) ==
    CHOOSE k \in 1..Len(operations) :
        /\ Emits(operations[k])
        /\ Cardinality({j \in 1..k : Emits(operations[j])}) = i

C13_OutputAppendOnly ==
    /\ (pc = "loop" /\ idx >= 1) => IsPrefix(prev.extracted_items, extracted_items)
    /\ pc = "loop" =>
          /\ Len(extracted_items) = Cardinality({k \in 1..idx : Emits(operations[k])})
          /\ \A i \in DOMAIN extracted_items : extracted_items[i] = ItemOf(EmitIndex(i))
    /\ \A p \in DOMAIN text_items :
          /\ Len(text_items[p]) = Cardinality({k \in 1..Len(operations) : Emits(operations[k])})
          /\ \A i \in DOMAIN text_items[p] : text_items[p][i] = ItemOf(EmitterOf(i))

\* a pass has returned two different items, the first emitted at the origin
\* before a successful move, the second after it
C13_Witness ==
    /\ pc = "main"
    /\ Len(text_items) >= 1
    /\ Len(operations) = 3
    /\ Emits(operations[1])
    /\ (WellFormedMove(operations[2]) \/ WellFormedTm(operations[2]))
    /\ Emits(operations[3])
    /\ Len(text_items[1]) = 2
    /\ text_items[1][1].x = 0
    /\ text_items[1][2].x # 0
    /\ text_items[1][1].text # text_items[1][2].text

\* ------------------------------------------------------------------------
\* C14: Tj and TJ leave x, y and font_size as they were, whether they emit
\* or not; the item emitted carries the x, y and font_size of that moment;
\* the items of a run of Tj/TJ operations with nothing else between them
\* all have the same x, y and font_size, whatever text they show.
\* ------------------------------------------------------------------------
SamePlace(a, b) == a.x = b.x /\ a.y = b.y /\ a.font_size = b.font_size

\* the place of the output where the item of the emitting operation k stands
ItemIndex(k) == Cardinality({m \in 1..k : Emits(operations[m])})

C14_ShowKeepsState ==
    (pc = "loop" /\ idx >= 1 /\ IsShow(last_op)) =>
        /\ current_x = prev.current_x
        /\ current_y = prev.current_y
        /\ current_font_size = prev.current_font_size
        /\ Emitted =>
              /\ LastItem.x = prev.current_x
              /\ LastItem.y = prev.current_y
              /\ LastItem.font_size = prev.current_font_size
        /\ \A j \in 1..idx :
              ( /\ \A k \in j..idx : IsShow(operations[k])
                /\ Emits(operations[j])
                /\ Emits(last_op) )
              => SamePlace(extracted_items[ItemIndex(j)], LastItem)

\* away from the origin, a Tj and a TJ in a row have emitted texts of
\* different lengths
C14_Witness ==
    /\ pc = "loop"
    /\ idx = 3
    /\ operations[2].operator = "Tj"
    /\ operations[3].operator = "TJ"
    /\ Len(extracted_items) = 2
    /\ Len(extracted_items[1].text) # Len(extracted_items[2].text)
    /\ extracted_items[1].text # <<>>
    /\ current_x # 0

\* ------------------------------------------------------------------------
\* C15: a position update is all or nothing: a Td/TD with at least 2
\* operands of which exactly one of operand[0], operand[1] is not numeric,
\* and a Tm with at least 6 operands of which exactly one of operand[4],
\* operand[5] is not numeric, change neither x nor y; a Td/TD/Tm either
\* updates both coordinates or none.
\* ------------------------------------------------------------------------
HalfNumeric(op, i, j) == Numeric(At(op.operands, i)) # Numeric(At(op.operands, j))

HalfMove(op) ==
    op.operator \in {"Td", "TD"} /\ Len(op.operands) >= 2 /\ HalfNumeric(op, 0, 1)

HalfTm(op) ==
    op.operator = "Tm" /\ Len(op.operands) >= 6 /\ HalfNumeric(op, 4, 5)

C15_PositionAllOrNothing ==
    (pc = "loop" /\ idx >= 1) =>
        /\ (HalfMove(last_op) \/ HalfTm(last_op))
              => (current_x = prev.current_x /\ current_y = prev.current_y)
        /\ last_op.operator \in {"Td", "TD"}
              => \/ current_x = prev.current_x /\ current_y = prev.current_y
                 \/ /\ WellFormedMove(last_op)
                    /\ current_x = prev.current_x + Value(At(last_op.operands, 0))
                    /\ current_y = prev.current_y + Value(At(last_op.operands, 1))
        /\ last_op.operator = "Tm"
              => \/ current_x = prev.current_x /\ current_y = prev.current_y
                 \/ /\ WellFormedTm(last_op)
                    /\ current_x = Value(At(last_op.operands, 4))
                    /\ current_y = Value(At(last_op.operands, 5))

\* away from the origin, a TD whose second offset is a name, then a Tm whose
\* operand[4] is a name, have both left the position alone
C15_Witness ==
    /\ pc = "loop"
    /\ idx = 3
    /\ operations[2] = Operation("TD", <<Real(1), F1>>)
    /\ last_op = Operation("Tm", <<Real(1), Real(0), Real(0), Real(1), F1, Real(20)>>)
    /\ current_x # 0
    /\ current_y # 0
    /\ current_y # 20

\* ------------------------------------------------------------------------
\* C16: an operation with fewer operands than its operator needs (Tf, Td,
\* TD: fewer than 2; Tm: fewer than 6; Tj, TJ: none) changes none of x, y,
\* font_size and the output, also when the operands it has are well-typed.
\* ------------------------------------------------------------------------
TooFewOperands(op) ==
    \/ op.operator \in {"Tf", "Td", "TD"} /\ Len(op.operands) < 2
    \/ op.operator = "Tm" /\ Len(op.operands) < 6
    \/ op.operator \in {"Tj", "TJ"} /\ Len(op.operands) = 0

C16_TooFewOperandsIsNoOp ==
    /\ (pc = "loop" /\ idx >= 1 /\ TooFewOperands(last_op)) => Locals = prev
    /\ \A i \in DOMAIN text_items : \A k \in 1..Len(operations) :
          TooFewOperands(operations[k])
             => text_items[i] = process_content_stream(Without(operations, k))

\* with a font size set and away from the origin, a Tm with 5 numbers has
\* been consumed
C16_Witness ==
    /\ pc = "loop"
    /\ idx = 3
    /\ last_op = Operation("Tm", <<Real(1), Real(0), Real(0), Real(1), Real(9)>>)
    /\ current_font_size # 0
    /\ current_x # 0

\* a show operation without operands, between two that emit, has been consumed
C16_WitnessShow ==
    /\ pc = "loop"
    /\ idx = 3
    /\ operations[2] \in {Operation("Tj", <<>>), Operation("TJ", <<>>)}
    /\ Len(extracted_items) = 2

\* ------------------------------------------------------------------------
\* C17: a TJ whose first operand is no array (a bare byte string, say) does
\* nothing and emits nothing; in an array, an element that is no byte
\* string is skipped: x, y and font_size stay, and the item is the one the
\* byte strings alone, in their order, would have given.
\* ------------------------------------------------------------------------
IsString(e) == e.kind = "String"

C17_TJSkipsOtherKinds ==
    (pc = "loop" /\ idx >= 1 /\ last_op.operator = "TJ" /\ Len(last_op.operands) >= 1) =>
        IF At(last_op.operands, 0).kind # "Array"
        THEN Locals = prev
        ELSE LET arr == At(last_op.operands, 0).arr
             IN  /\ current_x = prev.current_x
                 /\ current_y = prev.current_y
                 /\ current_font_size = prev.current_font_size
                 /\ Locals = Dispatch(prev,
                                 Operation("TJ", <<Array(SelectSeq(arr, IsString))>>))
                 /\ LastItem.text = DecodedStrings(SelectSeq(arr, IsString))

\* away from the origin, an array holding a string, a name, a nested array
\* and a string has given the two strings, after a TJ with a bare string
\* that gave nothing
C17_Witness ==
    /\ pc = "loop"
    /\ idx = 3
    /\ operations[2] = Operation("TJ", <<H>>)
    /\ last_op = Operation("TJ", <<Array(<<String(<<195, 169>>), F1, Array(<<H>>), H>>)>>)
    /\ current_x # 0
    /\ Len(extracted_items) = 1
    /\ LastItem.text = <<233, 72>>

\* ------------------------------------------------------------------------
\* C19: the pass does not know whether it is inside a text object: Tf,
\* Td/TD, Tm, Tj and TJ act the same before the first BT, between BT and ET
\* and after ET; ET resets nothing, so that a position set inside a text
\* object is the one a Tj/TJ after the ET emits at, until it is changed.
\* ------------------------------------------------------------------------
\* whether the first n operations end inside a text object
InText(n) ==
    LET S == {k \in 1..n : operations[k].operator \in {"BT", "ET"}}
    IN  S # {} /\ operations[SetMax(S)].operator = "BT"

RECURSIVE DropET(_)
DropET(ops) ==
    IF ops = <<>> THEN <<>>
    ELSE IF Head(ops).operator = "ET" THEN DropET(Tail(ops))
    ELSE <<Head(ops)>> \o DropET(Tail(ops))

ChangesPosition(op) ==
    op.operator = "BT" \/ WellFormedTm(op) \/ WellFormedMove(op)

C19_NoTextObjectState ==
    (pc = "loop" /\ idx >= 1) =>
        /\ last_op.operator = "ET" => Locals = prev
        /\ Locals = Fold(FreshLocals, DropET(Prefix(idx)), 1)
        /\ WellFormedTf(last_op)
              => current_font_size = Value(At(last_op.operands, 1))
        /\ WellFormedMove(last_op)
              => /\ current_x = prev.current_x + Value(At(last_op.operands, 0))
                 /\ current_y = prev.current_y + Value(At(last_op.operands, 1))
        /\ WellFormedTm(last_op)
              => /\ current_x = Value(At(last_op.operands, 4))
                 /\ current_y = Value(At(last_op.operands, 5))
        /\ Emits(last_op)
              => /\ Emitted
                 /\ LastItem.x = prev.current_x
                 /\ LastItem.y = prev.current_y
                 /\ LastItem.font_size = prev.current_font_size
        /\ \A j \in 1..(idx - 1) :
              ( /\ InText(j)
                /\ (WellFormedTm(operations[j]) \/ WellFormedMove(operations[j]))
                /\ \E k \in (j + 1)..(idx - 1) : operations[k].operator = "ET"
                /\ \A k \in (j + 1)..(idx - 1) : ~ChangesPosition(operations[k])
                /\ Emits(last_op) )
              => /\ LastItem.x = Fold(FreshLocals, Prefix(j), 1).current_x
                 /\ LastItem.y = Fold(FreshLocals, Prefix(j), 1).current_y

\* BT, a successful move, ET, then a show operation that has emitted away
\* from the origin
C19_Witness ==
    /\ pc = "loop"
    /\ idx = 4
    /\ operations[1].operator = "BT"
    /\ (WellFormedTm(operations[2]) \/ WellFormedMove(operations[2]))
    /\ operations[3].operator = "ET"
    /\ Emits(last_op)
    /\ ~InText(idx)
    /\ LastItem.x # 0

\* before any BT, a font size and a position have been set and an item
\* emitted with them
C19_WitnessBeforeBT ==
    /\ pc = "loop"
    /\ idx = 3
    /\ \A k \in 1..idx : operations[k].operator # "BT"
    /\ Emitted
    /\ LastItem.x # 0
    /\ LastItem.font_size # 0

====
